---- MODULE Spec2Model ----
(***************************************************************************)
(* Live market-data chart of the Breeze trading dashboard.                 *)
(*                                                                         *)
(* The module models one LiveChartComponent instance                       *)
(* (frontend/src/components/LiveChartComponent.tsx): its React state, its  *)
(* props, the WebSocket objects it creates, and the handlers and effects   *)
(* that run on every event.  One action is one event (a WebSocket event, a *)
(* click, a prop change) together with the render and the effects that     *)
(* React runs after it.                                                    *)
(*                                                                         *)
(* Time is in milliseconds from midnight (UTC) of a base day.  A timestamp *)
(* string is a tuple <<day, hour, minute, second>>; the empty tuple is a   *)
(* missing (falsy) timestamp.                                              *)
(***************************************************************************)
EXTENDS Integers, Sequences, FiniteSets

VARIABLES
    symbol,          \* prop symbol ("" is the default: no symbol)
    exchange,        \* prop exchange
    interval,        \* prop interval
    isConnected,     \* useState isConnected
    isLoading,       \* useState isLoading
    error,           \* useState error ("" is null)
    rawTicks,        \* useState rawTicks: the tick buffer
    aggregatedData,  \* useState aggregatedData: the candle sequence
    lastUpdateTime,  \* useState lastUpdateTime (NoTime is null)
    wsRef,           \* useRef wsRef.current: index into sockets, 0 is null
    sockets,         \* every WebSocket the instance has created
    now,             \* the wall clock, Date.now()
    aggClock,        \* history: Date.now() as read by the last aggregation
    accepted,        \* history: ticks or frames received since the last clear
    demo,            \* ChartDemo: useState selectedSymbols and intervals
    app,             \* App.LiveChart: its useState values, wsRef and sockets
    chart            \* ChartComponent with its FallbackChart: props and useState

props  == <<symbol, exchange, interval>>
state  == <<isConnected, isLoading, error, rawTicks, aggregatedData,
            lastUpdateTime, wsRef>>
env    == <<sockets, now>>
ghost  == <<aggClock, accepted>>
\* the other components of the page
others == <<demo, app, chart>>
vars   == <<props, state, env, ghost, others>>

(***************************************************************************)
(* Bounds of the model.                                                    *)
(***************************************************************************)
\* The buffer capacity: newTicks.slice(-1000) in the source, scaled down.
BufferCapacity == 3
\* The points App.LiveChart keeps: [...prev.slice(-99), point] in the source,
\* scaled down.
PointCapacity == 2
\* Ticks accepted in one run of the buffer specification.
MaxAccepted == 5
\* WebSockets one instance creates in one run.
MaxSockets == 3
\* WebSockets one instance creates in one run of the full specification.
MaxSpecSockets == 2
\* Candles handed to one ChartComponent.
MaxCandles == 12
\* Zoom gestures (wheel, zoom in, zoom out) on one ChartComponent.
MaxGestures == 2
\* Drags of DragPixels that the pan offset of one FallbackChart adds up to.
MaxPanSteps == 2

NoTs   == << >>
NoTime == 0 - 1
NoVolume == 0 - 1

\* 09:15:05, 09:15:40 and 09:16:10 of the base day: two one-minute buckets,
\* one bucket of every wider interval
T0915_05 == <<0, 9, 15, 5>>
T0915_40 == <<0, 9, 15, 40>>
T0916_10 == <<0, 9, 16, 10>>

Timestamps == {T0915_05, T0915_40, T0916_10}
Prices     == {100, 105}
Intervals  == {"1minute", "5minute", "30minute", "1day"}

(***************************************************************************)
(* Dates.                                                                  *)
(***************************************************************************)
\* new Date(timestamp).getTime() of a timestamp string
DateParse(ts) == (((ts[1] * 24 + ts[2]) * 60 + ts[3]) * 60 + ts[4]) * 1000

\* new Date(ms).toISOString(), for whole seconds
ToISOString(ms) ==
    LET s == ms \div 1000
    IN  <<s \div 86400, (s % 86400) \div 3600, (s % 3600) \div 60, s % 60>>

ClockValues == {DateParse(T0915_05), DateParse(T0916_10)}

Max(a, b) == IF a >= b THEN a ELSE b
Min(a, b) == IF a <= b THEN a ELSE b

(***************************************************************************)
(* The candle aggregator.                                                  *)
(***************************************************************************)
getIntervalMs(iv) ==
    CASE iv = "1minute"  -> 60 * 1000
      [] iv = "5minute"  -> 5 * 60 * 1000
      [] iv = "30minute" -> 30 * 60 * 1000
      [] iv = "1day"     -> 24 * 60 * 60 * 1000
      [] OTHER           -> 60 * 1000

\* const timestamp = new Date(tick.timestamp || Date.now()).getTime()
TickTime(tick, clock) ==
    IF tick.timestamp = NoTs THEN clock ELSE DateParse(tick.timestamp)

\* const intervalKey = Math.floor(timestamp / intervalMs) * intervalMs
IntervalKey_Ceil(timestamp, intervalMs) ==
    ((timestamp + intervalMs - 1) \div intervalMs) * intervalMs

IntervalKey(timestamp, intervalMs) ==
    (timestamp \div intervalMs) * intervalMs

NewCandle_NoVolume(intervalKey, tick) ==
    [time   |-> intervalKey \div 1000,
     open   |-> tick.price,
     high   |-> tick.price,
     low    |-> tick.price,
     close  |-> tick.price,
     volume |-> 0]

\* aggregated[intervalKey] = { time, open, high, low, close, volume }
NewCandle(intervalKey, tick) ==
    [time   |-> intervalKey \div 1000,
     open   |-> tick.price,
     high   |-> tick.price,
     low    |-> tick.price,
     close  |-> tick.price,
     volume |-> tick.volume]

UpdateCandle_NoHigh(candle, tick) ==
    [candle EXCEPT !.low    = Min(candle.low, tick.price),
                   !.close  = tick.price,
                   !.volume = candle.volume + tick.volume]

UpdateCandle_NoVolume(candle, tick) ==
    [candle EXCEPT !.high   = Max(candle.high, tick.price),
                   !.low    = Min(candle.low, tick.price),
                   !.close  = tick.price,
                   !.volume = tick.volume]

\* the else branch: the bucket already has a candle
UpdateCandle(candle, tick) ==
    [candle EXCEPT !.high   = Max(candle.high, tick.price),
                   !.low    = Min(candle.low, tick.price),
                   !.close  = tick.price,
                   !.volume = candle.volume + tick.volume]

\* One pass of ticks.forEach: aggregated is the object under construction, a
\* sequence of [key, candle] entries in the order the keys were inserted.
AggregateStep(aggregated, tick, intervalMs, clock) ==
    LET intervalKey == IntervalKey(TickTime(tick, clock), intervalMs)
        hit == {i \in 1..Len(aggregated) : aggregated[i].key = intervalKey}
    IN  IF hit = {}
        THEN Append(aggregated,
                    [key |-> intervalKey, candle |-> NewCandle(intervalKey, tick)])
        ELSE LET i == CHOOSE j \in hit : TRUE
             IN  [aggregated EXCEPT ![i].candle = UpdateCandle(@, tick)]

RECURSIVE AggregateFold(_, _, _, _)
AggregateFold(ticks, n, intervalMs, clock) ==
    IF n = 0 THEN << >>
    ELSE AggregateStep(AggregateFold(ticks, n - 1, intervalMs, clock),
                       ticks[n], intervalMs, clock)

\* Object.values that loses the newest key when there are several
ObjectValues_DropLast(aggregated) ==
    IF Len(aggregated) <= 1
    THEN [i \in 1..Len(aggregated) |-> aggregated[i].candle]
    ELSE [i \in 1..(Len(aggregated) - 1) |-> aggregated[i].candle]

\* Object.values(aggregated)
ObjectValues(aggregated) == [i \in 1..Len(aggregated) |-> aggregated[i].candle]

\* Array.prototype.sort((a, b) => a.time - b.time): a stable sort
RECURSIVE InsertByTime(_, _)
InsertByTime(sorted, c) ==
    IF sorted = << >> THEN <<c>>
    ELSE IF sorted[Len(sorted)].time <= c.time THEN Append(sorted, c)
    ELSE Append(InsertByTime(SubSeq(sorted, 1, Len(sorted) - 1), c),
                sorted[Len(sorted)])

RECURSIVE SortFold(_, _)
SortFold(s, n) ==
    IF n = 0 THEN << >> ELSE InsertByTime(SortFold(s, n - 1), s[n])

SortByTime_None(s) == s

SortByTime(s) == SortFold(s, Len(s))

\* aggregateTicks(ticks, interval); clock is what Date.now() returns in it
aggregateTicks(ticks, iv, clock) ==
    IF Len(ticks) = 0 THEN << >>
    ELSE SortByTime(ObjectValues(
             AggregateFold(ticks, Len(ticks), getIntervalMs(iv), clock)))

(***************************************************************************)
(* The tick buffer.                                                        *)
(***************************************************************************)
\* s.slice(-n)
SliceLast_First(s, n) ==
    IF Len(s) <= n THEN s ELSE SubSeq(s, 1, n)

SliceLast(s, n) ==
    IF Len(s) <= n THEN s ELSE SubSeq(s, Len(s) - n + 1, Len(s))

\* setRawTicks(prevTicks => [...prevTicks, tickData].slice(-1000))
AppendTick(prevTicks, tickData) ==
    SliceLast(Append(prevTicks, tickData), BufferCapacity)

(***************************************************************************)
(* Feed messages.  A message is the text of one WebSocket frame:           *)
(* parseable is whether JSON.parse accepts it, error is data.error ("" is  *)
(* absent), type is data.type.  For a tick, price, volume, timestamp,      *)
(* symbol and exchange are the fields of those names; for an ohlcv bar     *)
(* they are data.close, data.volume, data.datetime, data.stock_code and    *)
(* data.exchange_code.  NoVolume, NoTs and "" are absent fields.           *)
(***************************************************************************)
StatusTypes == {"connection_status", "subscription_status", "heartbeat"}

DataMessages(types, prices, volumes, timestamps, syms, exs) ==
    [parseable : {TRUE}, error : {""}, type : types, price : prices,
     volume : volumes, timestamp : timestamps, symbol : syms, exchange : exs]

PlainMessage(ok, err, type) ==
    [parseable |-> ok, error |-> err, type |-> type, price |-> 0,
     volume |-> NoVolume, timestamp |-> NoTs, symbol |-> "", exchange |-> ""]

\* parseFloat(data.volume) || 0
ParseVolume(v) == IF v = NoVolume THEN 0 ELSE v

\* the TickData built from an ohlcv message; sym and ex are the props symbol
\* and exchange captured by the handler's closure
OhlcvTick(data, sym, ex) ==
    [price     |-> data.price,
     volume    |-> ParseVolume(data.volume),
     timestamp |-> data.timestamp,
     symbol    |-> IF data.symbol = "" THEN sym ELSE data.symbol,
     exchange  |-> IF data.exchange = "" THEN ex ELSE data.exchange]

\* the TickData built from a tick message
TickTick(data, clock) ==
    [price     |-> data.price,
     volume    |-> ParseVolume(data.volume),
     timestamp |-> IF data.timestamp = NoTs THEN ToISOString(clock)
                   ELSE data.timestamp,
     symbol    |-> data.symbol,
     exchange  |-> data.exchange]

(***************************************************************************)
(* The component.  Handlers are functions from the instance's state (a     *)
(* record of the props, the React state, the ref and the sockets) to the   *)
(* state after the handler; an action commits the state that results from  *)
(* the handler and the effects React runs after it.                        *)
(***************************************************************************)
Cur ==
    [symbol |-> symbol, exchange |-> exchange, interval |-> interval,
     isConnected |-> isConnected, isLoading |-> isLoading, error |-> error,
     rawTicks |-> rawTicks, aggregatedData |-> aggregatedData,
     lastUpdateTime |-> lastUpdateTime, wsRef |-> wsRef, sockets |-> sockets,
     aggClock |-> aggClock]

Commit(st) ==
    /\ Len(st.sockets) <= MaxSockets
    /\ symbol' = st.symbol
    /\ exchange' = st.exchange
    /\ interval' = st.interval
    /\ isConnected' = st.isConnected
    /\ isLoading' = st.isLoading
    /\ error' = st.error
    /\ rawTicks' = st.rawTicks
    /\ aggregatedData' = st.aggregatedData
    /\ lastUpdateTime' = st.lastUpdateTime
    /\ wsRef' = st.wsRef
    /\ sockets' = st.sockets
    /\ aggClock' = st.aggClock
    /\ UNCHANGED others

\* new WebSocket(...): the handlers close over the props of the render
\* that created them; sent is what ws.send has been given
NewSocket(st) ==
    [readyState |-> "CONNECTING", symbol |-> st.symbol,
     exchange |-> st.exchange, interval |-> st.interval, sent |-> << >>]

\* ws.close()
CloseSocket(sock) ==
    IF sock.readyState \in {"CONNECTING", "OPEN"}
    THEN [sock EXCEPT !.readyState = "CLOSING"] ELSE sock

connectWebSocket(st) ==
    IF st.symbol = ""
    THEN [st EXCEPT !.error = "Symbol and user data are required"]
    ELSE [st EXCEPT !.isLoading = FALSE,
                    !.error = "",
                    !.sockets = Append(@, NewSocket(st)),
                    !.wsRef = Len(st.sockets) + 1]

disconnectWebSocket(st) ==
    [st EXCEPT !.sockets = IF st.wsRef = 0 THEN @
                           ELSE [@ EXCEPT ![st.wsRef] = CloseSocket(@)],
               !.wsRef = 0,
               !.isConnected = FALSE,
               !.rawTicks = << >>,
               !.aggregatedData = << >>]

\* the prop userData: the session of the logged-in user, the same object on
\* every render
userData ==
    [credentials |-> [api_key |-> "key", api_secret |-> "secret",
                      session_token |-> "token"]]

\* the subscriptionMessage of socket s
subscriptionMessage(sock) ==
    [api_key       |-> userData.credentials.api_key,
     api_secret    |-> userData.credentials.api_secret,
     session_token |-> userData.credentials.session_token,
     scrip_code    |-> sock.symbol,
     exchange_code |-> sock.exchange,
     interval      |-> sock.interval]

\* ws.onopen without ws.send
onopen_NoSend(st, s) == [st EXCEPT !.isConnected = TRUE]

\* ws.onopen of socket s
onopen(st, s) ==
    [st EXCEPT !.isConnected = TRUE,
               !.sockets[s].sent =
                   Append(@, subscriptionMessage(st.sockets[s]))]

\* ws.onmessage dropping the buffer on a frame that is not JSON
onmessage_ClearOnMalformed(st, s, data, clock) ==
    IF ~data.parseable THEN [st EXCEPT !.rawTicks = << >>]
    ELSE IF data.error # "" THEN [st EXCEPT !.error = data.error]
    ELSE IF data.type = "ohlcv"
    THEN [st EXCEPT !.rawTicks =
                        AppendTick(@, OhlcvTick(data, st.sockets[s].symbol,
                                                st.sockets[s].exchange)),
                    !.lastUpdateTime = clock]
    ELSE IF data.type = "tick"
    THEN [st EXCEPT !.rawTicks = AppendTick(@, TickTick(data, clock)),
                    !.lastUpdateTime = clock]
    ELSE st

\* ws.onmessage dropping the buffer on an error payload
onmessage_ErrorClears(st, s, data, clock) ==
    IF ~data.parseable THEN st
    ELSE IF data.error # ""
    THEN [st EXCEPT !.error = data.error, !.rawTicks = << >>]
    ELSE IF data.type = "ohlcv"
    THEN [st EXCEPT !.rawTicks =
                        AppendTick(@, OhlcvTick(data, st.sockets[s].symbol,
                                                st.sockets[s].exchange)),
                    !.lastUpdateTime = clock]
    ELSE IF data.type = "tick"
    THEN [st EXCEPT !.rawTicks = AppendTick(@, TickTick(data, clock)),
                    !.lastUpdateTime = clock]
    ELSE st

\* ws.onmessage of socket s
onmessage(st, s, data, clock) ==
    CASE ~data.parseable -> st
      [] data.parseable /\ data.error # "" -> [st EXCEPT !.error = data.error]
      [] data.parseable /\ data.error = "" /\ data.type \in StatusTypes -> st
      [] data.parseable /\ data.error = "" /\ data.type = "ohlcv" ->
            [st EXCEPT !.rawTicks =
                           AppendTick(@, OhlcvTick(data, st.sockets[s].symbol,
                                                   st.sockets[s].exchange)),
                       !.lastUpdateTime = clock]
      [] data.parseable /\ data.error = "" /\ data.type = "tick" ->
            [st EXCEPT !.rawTicks = AppendTick(@, TickTick(data, clock)),
                       !.lastUpdateTime = clock]
      [] OTHER -> st

\* whether the handler called setRawTicks
SetsRawTicks(data) ==
    data.parseable /\ data.error = "" /\ data.type \in {"ohlcv", "tick"}

\* ws.onerror
onerror(st) ==
    [st EXCEPT !.error = "WebSocket connection error", !.isConnected = FALSE]

\* ws.onclose that drops the buffer
onclose_Clears(st) ==
    [st EXCEPT !.isConnected = FALSE, !.rawTicks = << >>,
               !.aggregatedData = << >>]

\* ws.onclose
onclose(st) == [st EXCEPT !.isConnected = FALSE]

handleStartStop(st) ==
    IF st.isConnected THEN disconnectWebSocket(st) ELSE connectWebSocket(st)

(***************************************************************************)
(* Effects.  old is the state at the previous render, new the state the    *)
(* handler left; ticksSet is whether the handler gave rawTicks a new array.*)
(***************************************************************************)
\* the aggregation effect without interval among its dependencies
AggregationEffect_TicksOnly(old, new, ticksSet, clock) ==
    IF ticksSet
    THEN [new EXCEPT !.aggregatedData =
                         aggregateTicks(new.rawTicks, new.interval, clock),
                     !.aggClock = clock]
    ELSE new

\* useEffect(..., [rawTicks, interval, aggregateTicks, onDataUpdate])
AggregationEffect(old, new, ticksSet, clock) ==
    IF ticksSet \/ new.interval # old.interval
    THEN [new EXCEPT !.aggregatedData =
                         aggregateTicks(new.rawTicks, new.interval, clock),
                     !.aggClock = clock]
    ELSE new

\* useEffect(..., [symbol, userData, isConnected, connectWebSocket]);
\* connectWebSocket is a new function when symbol, exchange or interval change
AutoConnectEffect(old, new) ==
    IF /\ \/ new.symbol # old.symbol
          \/ new.exchange # old.exchange
          \/ new.interval # old.interval
          \/ new.isConnected # old.isConnected
       /\ new.symbol # ""
       /\ ~new.isConnected
    THEN connectWebSocket(new)
    ELSE new

Effects(old, new, ticksSet, clock) ==
    AutoConnectEffect(old, AggregationEffect(old, new, ticksSet, clock))

\* The first render and the effects of the mount
Unmounted(sym, ex, iv) ==
    [symbol |-> sym, exchange |-> ex, interval |-> iv,
     isConnected |-> FALSE, isLoading |-> FALSE, error |-> "",
     rawTicks |-> << >>, aggregatedData |-> << >>,
     lastUpdateTime |-> NoTime, wsRef |-> 0, sockets |-> << >>,
     aggClock |-> NoTime]

Mount(sym, ex, iv, clock) ==
    LET st == Unmounted(sym, ex, iv)
        a  == [st EXCEPT !.aggregatedData = aggregateTicks(st.rawTicks, iv, clock),
                         !.aggClock = clock]
    IN  IF sym # "" THEN connectWebSocket(a) ELSE a

(***************************************************************************)
(* Events.  Each action is one event of the instance: the handler, the     *)
(* render and the effects.  The history variable accepted is left to the   *)
(* specifications.                                                         *)
(***************************************************************************)
Sockets == 1..Len(sockets)

\* the transport of socket s opens
WsOpen(s) ==
    /\ sockets[s].readyState = "CONNECTING"
    /\ LET opened == [Cur EXCEPT !.sockets[s].readyState = "OPEN"]
       IN  Commit(Effects(Cur, onopen(opened, s), FALSE, now))
    /\ UNCHANGED now

\* a frame arrives on socket s; a socket that is not OPEN delivers none
WsMessage(s, data) ==
    /\ sockets[s].readyState = "OPEN"
    /\ Commit(Effects(Cur, onmessage(Cur, s, data, now), SetsRawTicks(data), now))
    /\ UNCHANGED now

\* the transport of socket s fails: the error event, then the close event
WsError(s) ==
    /\ sockets[s].readyState \in {"CONNECTING", "OPEN"}
    /\ LET failed == [Cur EXCEPT !.sockets[s].readyState = "CLOSED"]
       IN  Commit(Effects(Cur, onclose(onerror(failed)), FALSE, now))
    /\ UNCHANGED now

\* the transport of socket s closes: by the peer, or after ws.close()
WsClose(s) ==
    /\ sockets[s].readyState \in {"OPEN", "CLOSING"}
    /\ LET closed == [Cur EXCEPT !.sockets[s].readyState = "CLOSED"]
       IN  Commit(Effects(Cur, onclose(closed), FALSE, now))
    /\ UNCHANGED now

\* a click on Start / Stop (rendered when there is a symbol)
StartStop ==
    /\ symbol # ""
    /\ Commit(Effects(Cur, handleStartStop(Cur), isConnected, now))
    /\ UNCHANGED now

\* the parent renders the instance with another symbol
SetSymbol(sym) ==
    /\ sym # symbol
    /\ Commit(Effects(Cur, [Cur EXCEPT !.symbol = sym], FALSE, now))
    /\ UNCHANGED now

\* the parent renders the instance with another interval
SetInterval(iv) ==
    /\ iv # interval
    /\ Commit(Effects(Cur, [Cur EXCEPT !.interval = iv], FALSE, now))
    /\ UNCHANGED now

\* time passes
AdvanceClock ==
    /\ \E c \in ClockValues : c > now /\ now' = c
    /\ UNCHANGED <<props, state, sockets, aggClock, others>>

(***************************************************************************)
(* The other components of the page, as they are before their first event. *)
(***************************************************************************)
\* ChartDemo: useState(['RELIANCE', 'TCS']), useState(['1minute', '5minute'])
ChartDemoInit ==
    [selectedSymbols |-> <<"RELIANCE", "TCS">>,
     intervals       |-> <<"1minute", "5minute">>]

\* App.LiveChart before it is mounted: the initial useState values
LiveChartInit ==
    [mounted |-> FALSE, chartError |-> "",
     exchange |-> "NSE", stockCode |-> "", productType |-> "cash",
     expiryDate |-> "", right |-> "others", strikePrice |-> "",
     error |-> "", ticks |-> << >>, submitting |-> FALSE, started |-> FALSE,
     timer |-> FALSE, wsRef |-> 0, sockets |-> << >>]

\* ChartComponent before its mount.  zoomLevel is a fraction <<p, q>>;
\* panOffset is in tenths (a drag of one pixel is one tenth); panned, zoomed
\* and gestures are history: whether the user has dragged the view, whether
\* the user has zoomed it, and how many zoom gestures there were.
ChartInit ==
    [status |-> "unmounted", n |-> 0, interval |-> "1minute",
     showVolume |-> TRUE, error |-> "", useFallback |-> FALSE,
     zoomLevel |-> <<1, 1>>, primary |-> FALSE,
     isDragging |-> FALSE, dragStart |-> 0, panOffset |-> 0,
     panned |-> FALSE, zoomed |-> FALSE, gestures |-> 0]

OthersInit == demo = ChartDemoInit /\ app = LiveChartInit /\ chart = ChartInit

InitFrom(st) ==
    /\ symbol = st.symbol
    /\ exchange = st.exchange
    /\ interval = st.interval
    /\ isConnected = st.isConnected
    /\ isLoading = st.isLoading
    /\ error = st.error
    /\ rawTicks = st.rawTicks
    /\ aggregatedData = st.aggregatedData
    /\ lastUpdateTime = st.lastUpdateTime
    /\ wsRef = st.wsRef
    /\ sockets = st.sockets
    /\ aggClock = st.aggClock
    /\ OthersInit

\* a mounted instance whose first transport has opened
Connected(sym, ex, iv, clock) ==
    LET m == Mount(sym, ex, iv, clock)
    IN  onopen([m EXCEPT !.sockets[1].readyState = "OPEN"], 1)

(***************************************************************************)
(* SpecAgg: a connected instance receives ticks and bars and its display   *)
(* interval changes.                                                       *)
(***************************************************************************)
MsgVolumes == {NoVolume, 2}

\* every tick kept carries a timestamp: a tick message without one is
\* stamped with the clock on receipt
AggMessages ==
    DataMessages({"tick"}, Prices, MsgVolumes, Timestamps \cup {NoTs},
                 {"RELIANCE"}, {"NSE"})
    \cup DataMessages({"ohlcv"}, Prices, MsgVolumes, Timestamps,
                      {""}, {"NSE"})

InitAgg ==
    /\ now = DateParse(T0915_05)
    /\ InitFrom(Connected("RELIANCE", "NSE", "1minute", now))
    /\ accepted = << >>

AggMessage ==
    \E data \in AggMessages : WsMessage(1, data) /\ UNCHANGED accepted

AggSetInterval ==
    \E iv \in Intervals : SetInterval(iv) /\ UNCHANGED accepted

NextAgg == AggMessage \/ AggSetInterval

SpecAgg == InitAgg /\ [][NextAgg]_vars

(***************************************************************************)
(* SpecClock: as SpecAgg, with bars that carry no datetime and a clock     *)
(* that advances.                                                          *)
(***************************************************************************)
ClockMessages ==
    DataMessages({"tick", "ohlcv"}, Prices, {2}, {T0915_05, NoTs},
                 {"RELIANCE"}, {"NSE"})

InitClock ==
    /\ now = DateParse(T0915_05)
    /\ InitFrom(Connected("RELIANCE", "NSE", "1minute", now))
    /\ accepted = << >>

ClockMessage ==
    \E data \in ClockMessages :
        WsMessage(1, data) /\ UNCHANGED accepted

ClockSetInterval ==
    \E iv \in Intervals :
        SetInterval(iv) /\ UNCHANGED accepted

ClockAdvance == AdvanceClock /\ UNCHANGED accepted

NextClock == ClockMessage \/ ClockSetInterval \/ ClockAdvance

SpecClock == InitClock /\ [][NextClock]_vars

(***************************************************************************)
(* SpecBuf: the tick buffer of an instance against the history of the      *)
(* ticks accepted since the last clear.                                    *)
(***************************************************************************)
FeedError == "Subscription failed"

\* what is not a tick or a bar: status frames, an error payload, a frame of
\* an unknown type, a frame that is not JSON
OtherMessages ==
    {PlainMessage(TRUE, "", t) : t \in StatusTypes}
    \cup {PlainMessage(TRUE, FeedError, ""), PlainMessage(TRUE, "", "raw"),
          PlainMessage(FALSE, "", "")}

BufMessages(s) ==
    DataMessages({"tick", "ohlcv"}, Prices, {2}, {T0915_05},
                 {sockets[s].symbol}, {"NSE"})
    \cup OtherMessages

\* the TickData the handler builds from a tick or a bar
BuiltTick(s, data) ==
    IF data.type = "ohlcv"
    THEN OhlcvTick(data, sockets[s].symbol, sockets[s].exchange)
    ELSE TickTick(data, now)

InitBuf ==
    /\ now = DateParse(T0915_05)
    /\ InitFrom(Mount("RELIANCE", "NSE", "1minute", now))
    /\ accepted = << >>

BufOpen == \E s \in Sockets : WsOpen(s) /\ UNCHANGED accepted

BufMessage ==
    \E s \in Sockets : \E data \in BufMessages(s) :
        /\ Len(accepted) < MaxAccepted
        /\ WsMessage(s, data)
        /\ accepted' = IF SetsRawTicks(data)
                       THEN Append(accepted, BuiltTick(s, data))
                       ELSE accepted

BufStartStop ==
    /\ StartStop
    /\ accepted' = IF isConnected THEN << >> ELSE accepted

NextBuf == BufOpen \/ BufMessage \/ BufStartStop

SpecBuf == InitBuf /\ [][NextBuf]_vars

(***************************************************************************)
(* Spec: the instance from its mount on: transports open, deliver, fail    *)
(* and close, the user clicks Start / Stop, the parent changes the symbol  *)
(* and the interval.                                                       *)
(***************************************************************************)
Symbols == {"RELIANCE", "TCS"}

SpecIntervals == {"1minute", "5minute"}

\* the feed delivers the instrument socket s subscribed to
FeedMessages(s) ==
    DataMessages({"tick"}, {100}, {2}, {T0915_05},
                 {sockets[s].symbol}, {sockets[s].exchange})
    \cup DataMessages({"ohlcv"}, {100}, {2}, {T0915_05}, {""}, {""})
    \cup OtherMessages

Init ==
    /\ now = DateParse(T0915_05)
    /\ \E sym \in Symbols : InitFrom(Mount(sym, "NSE", "1minute", now))
    /\ accepted = << >>

Open == \E s \in Sockets : WsOpen(s) /\ UNCHANGED accepted

Message ==
    \E s \in Sockets : \E data \in FeedMessages(s) :
        WsMessage(s, data) /\ UNCHANGED accepted

TransportError ==
    \E s \in Sockets : WsError(s) /\ UNCHANGED accepted

TransportClose ==
    \E s \in Sockets : WsClose(s) /\ UNCHANGED accepted

ClickStartStop ==
    /\ StartStop
    /\ UNCHANGED accepted

ChangeSymbol ==
    \E sym \in Symbols : SetSymbol(sym) /\ UNCHANGED accepted

ChangeInterval ==
    \E iv \in SpecIntervals :
        SetInterval(iv) /\ UNCHANGED accepted

\* the step stays within the sockets of the full specification
WithinSpec == Len(sockets') <= MaxSpecSockets

Next ==
    \/ Open
    \/ Message
    \/ TransportError /\ WithinSpec
    \/ TransportClose /\ WithinSpec
    \/ ClickStartStop /\ WithinSpec
    \/ ChangeSymbol /\ WithinSpec
    \/ ChangeInterval /\ WithinSpec

Spec == Init /\ [][Next]_vars

(***************************************************************************)
(* SpecStop: one instrument, no prop changes and no transport errors: the  *)
(* user clicks Start / Stop while transports open, deliver and close.      *)
(***************************************************************************)
InitStop ==
    /\ now = DateParse(T0915_05)
    /\ InitFrom(Mount("RELIANCE", "NSE", "1minute", now))
    /\ accepted = << >>

NextStop ==
    \/ Open
    \/ Message
    \/ TransportClose
    \/ ClickStartStop

SpecStop == InitStop /\ [][NextStop]_vars

(***************************************************************************)
(* SpecLive: ticks of two minutes arrive while the user clicks Start /     *)
(* Stop and the parent changes the interval.                               *)
(***************************************************************************)
LiveMessages ==
    DataMessages({"tick"}, {100}, {2}, {T0915_05}, {"RELIANCE"}, {"NSE"})
    \cup DataMessages({"tick"}, {105}, {2}, {T0916_10}, {"RELIANCE"}, {"NSE"})

InitLive ==
    /\ now = DateParse(T0916_10)
    /\ InitFrom(Mount("RELIANCE", "NSE", "1minute", now))
    /\ accepted = << >>

LiveMessage ==
    \E s \in Sockets : \E data \in LiveMessages :
        WsMessage(s, data) /\ UNCHANGED accepted

NextLive ==
    \/ Open
    \/ LiveMessage
    \/ ClickStartStop
    \/ ChangeInterval

SpecLive == InitLive /\ [][NextLive]_vars

(***************************************************************************)
(* SpecFeed: a connected instance receives frames of every kind; the       *)
(* history records the frames received, in order.                          *)
(***************************************************************************)
\* frames that are not JSON or have a type the handler does not know
MalformedFrames == {PlainMessage(FALSE, "", ""), PlainMessage(TRUE, "", "raw")}

FeedFrames ==
    DataMessages({"tick"}, {100}, {2}, {T0915_05, T0916_10},
                 {"RELIANCE"}, {"NSE"})
    \cup DataMessages({"ohlcv"}, {105}, {2}, {T0915_40}, {""}, {"NSE"})
    \cup MalformedFrames
    \cup {PlainMessage(TRUE, FeedError, ""), PlainMessage(TRUE, "", "heartbeat")}

InitFeed ==
    /\ now = DateParse(T0915_05)
    /\ InitFrom(Connected("RELIANCE", "NSE", "1minute", now))
    /\ accepted = << >>

FeedFrame ==
    \E data \in FeedFrames :
        /\ Len(accepted) < MaxAccepted
        /\ WsMessage(1, data)
        /\ accepted' = Append(accepted, data)

NextFeed == FeedFrame

SpecFeed == InitFeed /\ [][NextFeed]_vars

(***************************************************************************)
(* ChartDemo: a grid of LiveChartComponent instances, one per selected     *)
(* symbol, keyed by the symbol; the instance at position index is rendered *)
(* with interval={intervals[index] || '1minute'}.  Positions count from 1; *)
(* "" in intervals is an element that was never assigned.                  *)
(***************************************************************************)
\* the popularStocks offered, a part of them
DemoStocks == {"RELIANCE", "TCS", "INFY"}

\* selectedSymbols.includes(sym)
Includes(arr, x) == \E i \in 1..Len(arr) : arr[i] = x

\* the position of sym in selectedSymbols
IndexOf(arr, x) == CHOOSE i \in 1..Len(arr) : arr[i] = x

\* selectedSymbols.filter(s => s !== symbol)
Filter(arr, x) == SelectSeq(arr, LAMBDA e : e # x)

\* newIntervals[index] = newInterval on a copy of the array
ArraySet(arr, index, v) ==
    [i \in 1..(IF index > Len(arr) THEN index ELSE Len(arr)) |->
        IF i = index THEN v ELSE IF i <= Len(arr) THEN arr[i] ELSE ""]

\* intervals[index] || '1minute'
IntervalAt(d, index) ==
    IF index <= Len(d.intervals) /\ d.intervals[index] # ""
    THEN d.intervals[index] ELSE "1minute"

\* the interval prop of the instance charting sym
IntervalProp(d, sym) == IntervalAt(d, IndexOf(d.selectedSymbols, sym))

addSymbol(d, sym) ==
    IF ~Includes(d.selectedSymbols, sym)
    THEN [d EXCEPT !.selectedSymbols = Append(@, sym)]
    ELSE d

removeSymbol(d, sym) ==
    [d EXCEPT !.selectedSymbols = Filter(@, sym)]

changeInterval(d, index, newInterval) ==
    [d EXCEPT !.intervals = ArraySet(@, index, newInterval)]

\* the instance variables of the specifications of LiveChartComponent stay
\* as they are
InstanceIdle == UNCHANGED <<props, state, env, ghost>>

\* a click on a stock button (disabled for a selected symbol)
DemoAdd ==
    \E sym \in DemoStocks :
        /\ ~Includes(demo.selectedSymbols, sym)
        /\ demo' = addSymbol(demo, sym)
        /\ InstanceIdle /\ UNCHANGED <<app, chart>>

\* a click on Remove in the header of a chart
DemoRemove ==
    \E sym \in DemoStocks :
        /\ Includes(demo.selectedSymbols, sym)
        /\ demo' = removeSymbol(demo, sym)
        /\ InstanceIdle /\ UNCHANGED <<app, chart>>

\* another option chosen in the select of the chart at position index
DemoChangeInterval ==
    \E index \in 1..Len(demo.selectedSymbols) : \E iv \in SpecIntervals :
        /\ iv # IntervalAt(demo, index)
        /\ demo' = changeInterval(demo, index, iv)
        /\ InstanceIdle /\ UNCHANGED <<app, chart>>

InitDemo ==
    /\ now = DateParse(T0915_05)
    /\ InitFrom(Unmounted("", "NSE", "1minute"))
    /\ accepted = << >>

NextDemo == DemoAdd \/ DemoRemove \/ DemoChangeInterval

SpecDemo == InitDemo /\ [][NextDemo]_vars

(***************************************************************************)
(* App.LiveChart: the form-driven line chart of App.tsx.  app holds its    *)
(* useState values, wsRef.current (an index into sockets, 0 is null), the  *)
(* WebSockets it has created, whether the setTimeout of handleStart is     *)
(* pending, and whether it is mounted.                                     *)
(***************************************************************************)
AppExchanges    == {"NFO"}
AppStockCodes   == {"TCS", "INFY"}
AppProductTypes == {"options"}
AppExpiryDates  == {"2025-01-30"}
AppRights       == {"call"}
AppStrikePrices == {"100"}

isFutures(a) == a.productType = "futures"
isOptions(a) == a.productType = "options"

\* canSubmit; the stock codes of the model have no blanks to trim
canSubmit(a) ==
    /\ a.stockCode # ""
    /\ (~isFutures(a) \/ a.expiryDate # "")
    /\ (~isOptions(a) \/
          (a.expiryDate # "" /\ a.right # "" /\ a.strikePrice # ""))
    /\ ~a.submitting

\* the message ws.onopen sends, from the values of the render that created
\* the socket
AppSubscription(c) ==
    [api_key       |-> userData.credentials.api_key,
     api_secret    |-> userData.credentials.api_secret,
     session_token |-> userData.credentials.session_token,
     scrip_code    |-> c.stockCode,
     exchange_code |-> c.exchange,
     product_type  |-> c.productType,
     expiry_date   |-> IF isFutures(c) \/ isOptions(c) THEN c.expiryDate ELSE "",
     right         |-> IF isOptions(c) THEN c.right ELSE "",
     strike_price  |-> IF isOptions(c) THEN c.strikePrice
                       ELSE IF isFutures(c) THEN "0" ELSE ""]

\* the dependencies of the WebSocket effect
AppDeps(a) ==
    <<a.started, a.exchange, a.stockCode, a.productType, a.expiryDate,
      a.right, a.strikePrice>>

\* new WebSocket(...) in the effect
AppNewSocket(a) ==
    [readyState |-> "CONNECTING",
     closure    |-> [exchange |-> a.exchange, stockCode |-> a.stockCode,
                     productType |-> a.productType,
                     expiryDate |-> a.expiryDate, right |-> a.right,
                     strikePrice |-> a.strikePrice],
     sent       |-> << >>]

\* ws.close() on socket i of a
AppClose(a, i) ==
    IF i = 0 THEN a
    ELSE [a EXCEPT !.sockets[i].readyState =
                       IF @ \in {"CONNECTING", "OPEN"} THEN "CLOSING" ELSE @]

\* the WebSocket effect that opens a socket without closing the last one
AppEffect_NoClose(old, new) ==
    IF AppDeps(old) = AppDeps(new) \/ ~new.started THEN new
    ELSE [new EXCEPT !.error = "", !.ticks = << >>,
                     !.sockets = Append(@, AppNewSocket(new)),
                     !.wsRef = Len(new.sockets) + 1]

\* the WebSocket effect after a render: the cleanup of the last run, which
\* closes the socket that run created, then the run
AppEffect(old, new) ==
    IF AppDeps(old) = AppDeps(new) THEN new
    ELSE LET cleaned == IF old.started THEN AppClose(new, old.wsRef) ELSE new
         IN  IF ~cleaned.started THEN cleaned
             ELSE LET closed == AppClose(cleaned, cleaned.wsRef)
                  IN  [closed EXCEPT !.error = "", !.ticks = << >>,
                                     !.sockets = Append(@, AppNewSocket(closed)),
                                     !.wsRef = Len(closed.sockets) + 1]

\* setTicks(prev => [...prev.slice(-99), point])
AppendPoint(prev, point) ==
    Append(SliceLast(prev, PointCapacity - 1), point)

\* the frames of the feed: a tick is a last traded price and an exchange
\* time; NoTs is a tick without exchange_time
AppFrames ==
    [parseable : {TRUE}, error : {""}, price : {100, 105},
     time : {T0915_05, NoTs}]
    \cup {[parseable |-> TRUE, error |-> FeedError, price |-> 0, time |-> NoTs],
          [parseable |-> FALSE, error |-> "", price |-> 0, time |-> NoTs]}

\* ws.onmessage of socket s
AppOnMessage(a, s, tick) ==
    IF ~tick.parseable THEN a
    ELSE IF tick.error # ""
    THEN AppClose([a EXCEPT !.error = tick.error], s)
    ELSE IF tick.time # NoTs
    THEN [a EXCEPT !.ticks =
                       AppendPoint(@, [time  |-> DateParse(tick.time) \div 1000,
                                       value |-> tick.price])]
    ELSE a

\* handleStart
handleStart(a) == [a EXCEPT !.submitting = TRUE, !.started = FALSE,
                            !.timer = TRUE]

AppCommit(a) ==
    /\ Len(a.sockets) <= MaxSockets
    /\ app' = a
    /\ UNCHANGED <<props, state, env, ghost, demo, chart>>

\* the component mounts; createChart or addLineSeries may throw, and then
\* only the chart error is rendered.  app is one instance of the component:
\* a later mount is another instance, with state and sockets of its own.
AppMount ==
    \E chartThrows \in BOOLEAN :
        /\ app = LiveChartInit
        /\ AppCommit([LiveChartInit EXCEPT
               !.mounted = TRUE,
               !.chartError = IF chartThrows THEN "TypeError" ELSE ""])

\* the form is on the page
AppForm == app.mounted /\ app.chartError = ""

AppSetExchange ==
    \E v \in AppExchanges :
        /\ AppForm /\ v # app.exchange
        /\ AppCommit(AppEffect(app, [app EXCEPT !.exchange = v]))

AppSetStockCode ==
    \E v \in AppStockCodes :
        /\ AppForm /\ v # app.stockCode
        /\ AppCommit(AppEffect(app, [app EXCEPT !.stockCode = v]))

AppSetProductType ==
    \E v \in AppProductTypes :
        /\ AppForm /\ v # app.productType
        /\ AppCommit(AppEffect(app, [app EXCEPT !.productType = v]))

AppSetExpiryDate ==
    \E v \in AppExpiryDates :
        /\ AppForm /\ v # app.expiryDate
        /\ isFutures(app) \/ isOptions(app)
        /\ AppCommit(AppEffect(app, [app EXCEPT !.expiryDate = v]))

AppSetRight ==
    \E v \in AppRights :
        /\ AppForm /\ v # app.right
        /\ isOptions(app)
        /\ AppCommit(AppEffect(app, [app EXCEPT !.right = v]))

AppSetStrikePrice ==
    \E v \in AppStrikePrices :
        /\ AppForm /\ v # app.strikePrice
        /\ isOptions(app)
        /\ AppCommit(AppEffect(app, [app EXCEPT !.strikePrice = v]))

\* the form is submitted
AppStart ==
    /\ AppForm /\ canSubmit(app)
    /\ AppCommit(AppEffect(app, handleStart(app)))

\* the setTimeout of handleStart fires; after the unmount its setters do
\* nothing
AppTimer ==
    /\ app.timer
    /\ IF app.mounted
       THEN AppCommit(AppEffect(app, [app EXCEPT !.started = TRUE,
                                                 !.submitting = FALSE,
                                                 !.timer = FALSE]))
       ELSE AppCommit([app EXCEPT !.timer = FALSE])

AppSockets == 1..Len(app.sockets)

AppWsOpen ==
    \E s \in AppSockets :
        /\ app.sockets[s].readyState = "CONNECTING"
        /\ AppCommit([app EXCEPT
               !.sockets[s].readyState = "OPEN",
               !.sockets[s].sent =
                   Append(@, AppSubscription(app.sockets[s].closure))])

AppWsMessage ==
    \E s \in AppSockets : \E tick \in AppFrames :
        /\ app.sockets[s].readyState = "OPEN"
        /\ IF app.mounted THEN AppCommit(AppOnMessage(app, s, tick))
           ELSE AppCommit(IF tick.parseable /\ tick.error # ""
                          THEN AppClose(app, s) ELSE app)

\* the transport fails: ws.onerror, then the close event
AppWsError ==
    \E s \in AppSockets :
        /\ app.sockets[s].readyState \in {"CONNECTING", "OPEN"}
        /\ AppCommit([app EXCEPT
               !.sockets[s].readyState = "CLOSED",
               !.error = IF app.mounted THEN "WebSocket error" ELSE @])

AppWsClose ==
    \E s \in AppSockets :
        /\ app.sockets[s].readyState \in {"OPEN", "CLOSING"}
        /\ AppCommit([app EXCEPT !.sockets[s].readyState = "CLOSED"])

\* the page changes: the cleanup of the last run of the effect
AppUnmount ==
    /\ app.mounted
    /\ AppCommit([(IF app.started THEN AppClose(app, app.wsRef) ELSE app)
                     EXCEPT !.mounted = FALSE])

InitApp ==
    /\ now = DateParse(T0915_05)
    /\ InitFrom([Unmounted("", "NSE", "1minute") EXCEPT !.aggClock = NoTime])
    /\ accepted = << >>

\* the step stays within the sockets of the specification
WithinApp == Len(app'.sockets) <= MaxSpecSockets

NextApp ==
    \/ AppMount
    \/ AppSetExchange /\ WithinApp
    \/ AppSetStockCode /\ WithinApp
    \/ AppSetProductType /\ WithinApp
    \/ AppSetExpiryDate /\ WithinApp
    \/ AppSetRight /\ WithinApp
    \/ AppSetStrikePrice /\ WithinApp
    \/ AppStart
    \/ AppTimer /\ WithinApp
    \/ AppWsOpen
    \/ AppWsMessage
    \/ AppWsError
    \/ AppWsClose
    \/ AppUnmount

SpecApp == InitApp /\ [][NextApp]_vars

(***************************************************************************)
(* ChartComponent and its FallbackChart (frontend/src/ChartComponent.tsx). *)
(* chart.n is the length of the data prop.  The zoom level is a double in  *)
(* the source and an exact fraction here.                                  *)
(***************************************************************************)
RECURSIVE GCD(_, _)
GCD(a, b) == IF b = 0 THEN a ELSE GCD(b, a % b)

\* fractions <<p, q>> with q > 0, in lowest terms
Frac(p, q)  == LET g == GCD(p, q) IN <<p \div g, q \div g>>
FracLe(x, y) == x[1] * y[2] <= y[1] * x[2]
FracMin(x, y) == IF FracLe(x, y) THEN x ELSE y
FracMax(x, y) == IF FracLe(x, y) THEN y ELSE x
FracMul(x, y) == Frac(x[1] * y[1], x[2] * y[2])

\* Math.min(cap, Math.max(1, base / dataLength)); base / 0 is Infinity
OptimalZoom(cap, base, dataLength) ==
    IF dataLength = 0 THEN <<cap, 1>>
    ELSE FracMin(<<cap, 1>>, FracMax(<<1, 1>>, Frac(base, dataLength)))

getOptimalZoomLevel(iv, dataLength) ==
    CASE iv = "1minute"  -> OptimalZoom(3, 20, dataLength)
      [] iv = "5minute"  -> OptimalZoom(4, 15, dataLength)
      [] iv = "30minute" -> OptimalZoom(5, 10, dataLength)
      [] iv = "1day"     -> OptimalZoom(6, 5, dataLength)
      [] OTHER           -> OptimalZoom(3, 20, dataLength)

\* the branch of ChartComponent that renders FallbackChart
FallbackShown(c) == c.error # "" /\ c.useFallback

\* the branch of ChartComponent that renders the lightweight-charts
\* container and the controls row
PrimaryShown(c) == c.error = "" /\ c.n > 0

\* FallbackChart, draw effect: the window of data it draws
visibleDataPoints(c) ==
    Max(10, (c.n * c.zoomLevel[2]) \div c.zoomLevel[1])
startIndex(c) == Max(0, c.panOffset \div 10)
endIndex(c)   == Min(c.n, startIndex(c) + visibleDataPoints(c))

\* the effect that sets the zoom level from interval and candles.length
ZoomEffect(old, c) ==
    IF old.status = "rendered" /\ old.interval = c.interval /\ old.n = c.n
    THEN c
    ELSE [c EXCEPT !.zoomLevel = getOptimalZoomLevel(c.interval, c.n)]

\* where the chart creation may throw
Failures == {"none", "createChart", "setData"}

\* the chart creation that sets the error without the fallback
InitEffect_ErrorOnly(c, fail) ==
    IF FallbackShown(c) \/ c.error # "" THEN c
    ELSE IF c.n = 0 THEN [c EXCEPT !.primary = FALSE]
    ELSE IF fail = "none" THEN [c EXCEPT !.primary = TRUE]
    ELSE [c EXCEPT !.primary = (fail = "setData"),
                   !.error = "Chart creation failed"]

\* the effect that creates the lightweight-charts chart; it runs after
\* every render, its cleanup removes the chart of the last run
InitEffect(c, fail) ==
    IF FallbackShown(c) THEN c
    ELSE IF c.n = 0 THEN [c EXCEPT !.primary = FALSE]
    ELSE IF fail = "none" THEN [c EXCEPT !.primary = TRUE]
    ELSE [c EXCEPT !.primary = (fail = "setData"),
                   !.error = "Chart creation failed",
                   !.useFallback = TRUE]

\* the effects after a render
ChartEffects(old, c, fail) == InitEffect(ZoomEffect(old, c), fail)

\* handleZoomIn, handleZoomOut, handleResetZoom
handleZoomIn(c) ==
    [c EXCEPT !.zoomLevel = FracMin(<<10, 1>>, FracMul(@, <<6, 5>>))]
handleZoomOut(c) ==
    [c EXCEPT !.zoomLevel = FracMax(<<1, 2>>, FracMul(@, <<5, 6>>))]
handleResetZoom(c) ==
    [c EXCEPT !.zoomLevel = getOptimalZoomLevel(c.interval, c.n)]

\* FallbackChart handlers; x is e.clientX
handleMouseDown(c, x) == [c EXCEPT !.isDragging = TRUE, !.dragStart = x]
handleMouseMove(c, x) ==
    IF c.isDragging
    THEN [c EXCEPT !.panOffset = Max(0, @ - (x - c.dragStart)),
                   !.dragStart = x]
    ELSE c
handleMouseUp(c) == [c EXCEPT !.isDragging = FALSE]
handleWheel(c, deltaYPositive) ==
    [c EXCEPT !.zoomLevel =
        FracMax(<<1, 2>>,
                FracMin(<<10, 1>>,
                        FracMul(@, IF deltaYPositive THEN <<9, 10>>
                                   ELSE <<11, 10>>)))]

ChartCommit(c) ==
    /\ chart' = c
    /\ UNCHANGED <<props, state, env, ghost, demo, app>>

ViewIntervals == {"1minute", "5minute"}
DragPixels    == 25
ClientXs      == {0, DragPixels}

Rendered == chart.status = "rendered"

\* a user zoom gesture
Zoomed(c) == [c EXCEPT !.zoomed = TRUE, !.gestures = @ + 1]

\* the owner renders a ChartComponent.  Its first render reads cleanupChart
\* in the dependencies of the unmount effect before the const that declares
\* it: a build that keeps const throws there, a build that lowers it to var
\* reads undefined.
ChartMount ==
    \E n \in 0..MaxCandles : \E iv \in ViewIntervals :
    \E throws \in BOOLEAN : \E fail \in Failures :
        /\ chart.status = "unmounted"
        /\ chart = ChartInit
        /\ LET c == [ChartInit EXCEPT !.n = n, !.interval = iv]
           IN  IF throws THEN ChartCommit([c EXCEPT !.status = "crashed"])
               ELSE ChartCommit(
                        [ChartEffects(chart, c, fail)
                            EXCEPT !.status = "rendered"])

\* the owner passes new data
ChartSetData ==
    \E n \in 0..MaxCandles : \E fail \in Failures :
        /\ Rendered
        /\ ChartCommit(ChartEffects(chart, [chart EXCEPT !.n = n], fail))

\* the owner passes another interval
ChartSetInterval ==
    \E iv \in ViewIntervals : \E fail \in Failures :
        /\ Rendered /\ iv # chart.interval
        /\ ChartCommit(ChartEffects(chart, [chart EXCEPT !.interval = iv],
                                    fail))

\* the volume toggle of the controls row
ChartToggleVolume ==
    \E fail \in Failures :
        /\ Rendered /\ PrimaryShown(chart)
        /\ ChartCommit(ChartEffects(chart,
                                    [chart EXCEPT !.showVolume = ~@], fail))

ChartZoomIn ==
    \E fail \in Failures :
        /\ Rendered /\ (PrimaryShown(chart) \/ FallbackShown(chart))
        /\ chart.gestures < MaxGestures
        /\ ChartCommit(ChartEffects(chart, Zoomed(handleZoomIn(chart)), fail))

ChartZoomOut ==
    \E fail \in Failures :
        /\ Rendered /\ (PrimaryShown(chart) \/ FallbackShown(chart))
        /\ chart.gestures < MaxGestures
        /\ ChartCommit(ChartEffects(chart, Zoomed(handleZoomOut(chart)),
                                    fail))

ChartResetZoom ==
    \E fail \in Failures :
        /\ Rendered /\ (PrimaryShown(chart) \/ FallbackShown(chart))
        /\ ChartCommit(ChartEffects(chart, handleResetZoom(chart), fail))

ChartMouseDown ==
    \E x \in ClientXs :
        /\ Rendered /\ FallbackShown(chart)
        /\ ChartCommit(handleMouseDown(chart, x))

ChartMouseMove ==
    \E x \in ClientXs :
        /\ Rendered /\ FallbackShown(chart)
        /\ LET c == handleMouseMove(chart, x)
           IN  /\ c.panOffset <= MaxPanSteps * DragPixels
               /\ ChartCommit([c EXCEPT !.panned =
                                   @ \/ c.panOffset # chart.panOffset])

\* onMouseUp and onMouseLeave
ChartMouseUp ==
    /\ Rendered /\ FallbackShown(chart)
    /\ ChartCommit(handleMouseUp(chart))

ChartWheel ==
    \E deltaYPositive \in BOOLEAN :
        /\ Rendered /\ FallbackShown(chart)
        /\ chart.gestures < MaxGestures
        /\ ChartCommit(ChartEffects(chart,
                                    Zoomed(handleWheel(chart, deltaYPositive)),
                                    "none"))

\* the owner stops rendering the component: cleanupChart
ChartUnmount ==
    /\ Rendered
    /\ ChartCommit([chart EXCEPT !.status = "removed", !.primary = FALSE])

InitView ==
    /\ now = DateParse(T0915_05)
    /\ InitFrom(Mount("RELIANCE", "NSE", "1minute", now))
    /\ accepted = << >>

NextView ==
    \/ ChartMount
    \/ ChartSetData
    \/ ChartSetInterval
    \/ ChartToggleVolume
    \/ ChartZoomIn
    \/ ChartZoomOut
    \/ ChartResetZoom
    \/ ChartMouseDown
    \/ ChartMouseMove
    \/ ChartMouseUp
    \/ ChartWheel
    \/ ChartUnmount

SpecView == InitView /\ [][NextView]_vars

(***************************************************************************)
(* What the claims are stated with: the bucket of a tick, computed from    *)
(* the interval widths of the data model, and the ticks of a candle.       *)
(***************************************************************************)
Width(iv) ==
    CASE iv = "1minute"  -> 60000
      [] iv = "5minute"  -> 300000
      [] iv = "30minute" -> 1800000
      [] iv = "1day"     -> 86400000

\* the instant of a buffered tick, as the last aggregation saw it
TimeOf(tick) ==
    IF tick.timestamp = NoTs THEN aggClock ELSE DateParse(tick.timestamp)

BucketStart(t, w) == t - (t % w)

\* the buffer positions whose tick falls in the bucket of candle c
TicksOf(c) ==
    {k \in 1..Len(rawTicks) :
        BucketStart(TimeOf(rawTicks[k]), Width(interval)) = c.time * 1000}

Candles == {aggregatedData[i] : i \in 1..Len(aggregatedData)}

RECURSIVE SumVolume(_)
SumVolume(ks) ==
    IF ks = {} THEN 0
    ELSE LET k == CHOOSE x \in ks : TRUE
         IN  rawTicks[k].volume + SumVolume(ks \ {k})

\* the chronologically first and last tick of a set of buffer positions,
\* ties broken by arrival order
FirstOf(ks) ==
    CHOOSE k \in ks : \A j \in ks :
        \/ TimeOf(rawTicks[k]) < TimeOf(rawTicks[j])
        \/ TimeOf(rawTicks[k]) = TimeOf(rawTicks[j]) /\ k <= j

LastOf(ks) ==
    CHOOSE k \in ks : \A j \in ks :
        \/ TimeOf(rawTicks[k]) > TimeOf(rawTicks[j])
        \/ TimeOf(rawTicks[k]) = TimeOf(rawTicks[j]) /\ k >= j

\* C1: the buffer holds at most BufferCapacity ticks, and exactly the most
\* recent min(n, BufferCapacity) of the n ticks accepted since the last
\* clear, in arrival order.
C1_MostRecentTicks ==
    LET n == Len(accepted)
        k == IF n <= BufferCapacity THEN n ELSE BufferCapacity
    IN  /\ Len(rawTicks) <= BufferCapacity
        /\ Len(rawTicks) = k
        /\ \A i \in 1..k : rawTicks[i] = accepted[n - k + i]

\* two ticks have been evicted, the first of them unlike the oldest tick kept
C1_Witness ==
    /\ Len(accepted) = BufferCapacity + 2
    /\ Len(rawTicks) = BufferCapacity
    /\ accepted[1] # rawTicks[1]

\* C2: every candle opens at the price of the chronologically first tick of
\* its bucket and closes at the price of the chronologically last one,
\* whatever the order in which the ticks arrived.
C2_OpenCloseChronological ==
    \A c \in Candles :
        TicksOf(c) # {} =>
            /\ c.open = rawTicks[FirstOf(TicksOf(c))].price
            /\ c.close = rawTicks[LastOf(TicksOf(c))].price

\* C3: every candle has high >= open, high >= close, low <= open and
\* low <= close.
C3_HighLowBracket ==
    \A c \in Candles :
        /\ c.high >= c.open
        /\ c.high >= c.close
        /\ c.low <= c.open
        /\ c.low <= c.close

\* a candle of three ticks whose high lies above both its open and its close
C3_Witness ==
    \E c \in Candles :
        /\ Cardinality(TicksOf(c)) = 3
        /\ c.high > c.open
        /\ c.high > c.close

\* C4: a tick with timestamp t contributes to exactly the candle whose
\* bucketStart = floor(t / width) * width, so bucketStart <= t <
\* bucketStart + width; ticks share a candle exactly when they share a
\* bucket, and every candle has a tick.
C4_BucketAssignment ==
    LET w == Width(interval)
        covering(k) ==
            {i \in 1..Len(aggregatedData) :
                /\ aggregatedData[i].time * 1000 <= TimeOf(rawTicks[k])
                /\ TimeOf(rawTicks[k]) < aggregatedData[i].time * 1000 + w}
        buckets == {BucketStart(TimeOf(rawTicks[k]), w) : k \in 1..Len(rawTicks)}
    IN  /\ \A k \in 1..Len(rawTicks) :
               /\ Cardinality(covering(k)) = 1
               /\ \A i \in covering(k) :
                      aggregatedData[i].time * 1000
                          = BucketStart(TimeOf(rawTicks[k]), w)
        /\ \A c \in Candles : TicksOf(c) # {}
        /\ Len(aggregatedData) = Cardinality(buckets)

\* ticks at 09:15:05, 09:15:40 and 09:16:10 under the one-minute interval:
\* the candles of 09:15:00 and 09:16:00
C4_Witness ==
    /\ interval = "1minute"
    /\ {rawTicks[k].timestamp : k \in 1..Len(rawTicks)} = Timestamps
    /\ Len(aggregatedData) = 2
    /\ aggregatedData[1].time = 9 * 3600 + 15 * 60
    /\ aggregatedData[2].time = 9 * 3600 + 16 * 60

\* C5: every candle's high is the maximum price, its low the minimum price
\* and its volume the sum of the volumes of the buffer ticks of its bucket.
C5_HighLowVolume ==
    \A c \in Candles :
        LET ks == TicksOf(c)
        IN  /\ ks # {}
            /\ \E k \in ks : rawTicks[k].price = c.high
            /\ \A k \in ks : rawTicks[k].price <= c.high
            /\ \E k \in ks : rawTicks[k].price = c.low
            /\ \A k \in ks : rawTicks[k].price >= c.low
            /\ c.volume = SumVolume(ks)

\* a candle of three ticks with two prices and a volume above one tick's
C5_Witness ==
    \E c \in Candles :
        /\ Cardinality(TicksOf(c)) = 3
        /\ c.high > c.low
        /\ c.volume > 2

\* C6: the candle sequence is strictly ascending by time, so no two candles
\* share a bucketStart.
C6_StrictlyAscending ==
    \A i \in 1..Len(aggregatedData) : \A j \in 1..Len(aggregatedData) :
        i < j => aggregatedData[i].time < aggregatedData[j].time

\* two candles whose ticks arrived in the opposite order
C6_Witness ==
    /\ Len(aggregatedData) = 2
    /\ Len(rawTicks) >= 2
    /\ TimeOf(rawTicks[1]) > TimeOf(rawTicks[Len(rawTicks)])
    /\ TicksOf(aggregatedData[2]) = {1}

\* C7: a buffer of one tick of price p and volume v gives exactly one candle
\* with open = high = low = close = p and volume = v; the empty buffer gives
\* the empty sequence.
C7_SingleAndEmpty ==
    /\ Len(rawTicks) = 0 => aggregatedData = << >>
    /\ Len(rawTicks) = 1 =>
           /\ Len(aggregatedData) = 1
           /\ aggregatedData[1].open = rawTicks[1].price
           /\ aggregatedData[1].high = rawTicks[1].price
           /\ aggregatedData[1].low = rawTicks[1].price
           /\ aggregatedData[1].close = rawTicks[1].price
           /\ aggregatedData[1].volume = rawTicks[1].volume

\* one tick with a volume, aggregated under the one-day interval
C7_Witness ==
    /\ Len(rawTicks) = 1
    /\ rawTicks[1].volume = 2
    /\ interval = "1day"
    /\ Len(aggregatedData) = 1

\* C8: the candles are a function of the buffer contents and the interval
\* alone: calling aggregateTicks again on the buffer and the interval the
\* displayed candles were computed from, with no new tick, returns them.
C8_Deterministic ==
    aggregateTicks(rawTicks, interval, now) = aggregatedData

\* the connection state of the data model, read off the instance: Connected
\* when isConnected, Connecting while the transport it holds is connecting
ConnectionState ==
    IF isConnected THEN "Connected"
    ELSE IF wsRef # 0 /\ sockets[wsRef].readyState = "CONNECTING"
         THEN "Connecting"
         ELSE "Disconnected"

\* C9: disconnect() leaves the instance Disconnected, with an empty buffer
\* and an empty candle sequence.
C9_DisconnectEndsDisconnected ==
    [][(isConnected /\ ClickStartStop) =>
          /\ ConnectionState' = "Disconnected"
          /\ rawTicks' = << >>
          /\ aggregatedData' = << >>]_vars

\* C10: every tick in the buffer was delivered by the subscription for the
\* instance's current symbol.
C10_NoCrossSubscriptionLeak ==
    \A k \in 1..Len(rawTicks) : rawTicks[k].symbol = symbol

\* whether message m carries the credentials of the session and the
\* instrument socket sock was opened for
CarriesIdentity(m, sock) ==
    /\ m.api_key = userData.credentials.api_key
    /\ m.api_secret = userData.credentials.api_secret
    /\ m.session_token = userData.credentials.session_token
    /\ m.scrip_code = sock.symbol
    /\ m.exchange_code = sock.exchange

\* C11: a transport is created with nothing sent on it; the step that opens
\* it sends one subscription message with the credentials and the
\* instrument identity; no other step sends anything on it.
C11_ExactlyOneSubscription ==
    /\ \A s \in Sockets : sockets[s].sent = << >>
    /\ [][\A s \in 1..Len(sockets') :
            IF s > Len(sockets)
            THEN sockets'[s].sent = << >>
            ELSE IF /\ sockets[s].readyState = "CONNECTING"
                    /\ sockets'[s].readyState = "OPEN"
                 THEN /\ sockets[s].sent = << >>
                      /\ Len(sockets'[s].sent) = 1
                      /\ CarriesIdentity(sockets'[s].sent[1], sockets[s])
                 ELSE sockets'[s].sent = sockets[s].sent]_vars

\* two transports have opened, one of them has delivered ticks and closed,
\* and each carries its one message
C11_Witness ==
    /\ Len(sockets) = 2
    /\ sockets[1].readyState = "CLOSED" /\ Len(sockets[1].sent) = 1
    /\ sockets[2].readyState = "OPEN" /\ Len(sockets[2].sent) = 1
    /\ rawTicks # << >>

\* C12: a change of the display interval leaves every transport as it was:
\* none is created, none is closed, nothing is sent; the candles are
\* re-aggregated from the unchanged buffer.
C12_IntervalChangeKeepsConnection ==
    [][ChangeInterval =>
          /\ sockets' = sockets
          /\ wsRef' = wsRef
          /\ rawTicks' = rawTicks
          /\ aggregatedData' = aggregateTicks(rawTicks, interval', now)]_vars

\* the fields of the subscription message of the data model
SubscriptionFields ==
    {"api_key", "api_secret", "session_token", "scrip_code", "exchange_code"}

\* C13: every message sent to the feed has exactly the fields api_key,
\* api_secret, session_token, scrip_code and exchange_code.
C13_SubscriptionFields ==
    \A s \in Sockets : \A k \in 1..Len(sockets[s].sent) :
        DOMAIN sockets[s].sent[k] = SubscriptionFields

\* C14: a transport error, a transport close and a manual disconnect create
\* no transport.
C14_NoAutomaticRetry ==
    [][(TransportError \/ TransportClose \/ (isConnected /\ ClickStartStop))
          => Len(sockets') = Len(sockets)]_vars

\* the transports that are connecting or open
LiveSockets == {s \in Sockets : sockets[s].readyState \in {"CONNECTING", "OPEN"}}

\* C15: at most one transport of the instance is connecting or open.
C15_AtMostOneLiveTransport == Cardinality(LiveSockets) <= 1

\* C16: after disconnect() none of the transports the instance had created
\* is connecting or open, and the close event of a transport that
\* disconnect() has closed changes neither the buffer nor the error nor the
\* connection status.
C16_DisconnectLeavesNothingDangling ==
    [][/\ (isConnected /\ ClickStartStop) =>
              \A s \in Sockets :
                  sockets'[s].readyState \notin {"CONNECTING", "OPEN"}
       /\ \A s \in Sockets :
              (sockets[s].readyState = "CLOSING" /\ WsClose(s))
                  => UNCHANGED <<rawTicks, error, isConnected>>]_vars

\* C17: isConnected is true exactly when the transport held in wsRef is
\* open.
C17_StatusReflectsTransport ==
    isConnected <=> (wsRef # 0 /\ sockets[wsRef].readyState = "OPEN")

\* the error and the close event of the transport held in wsRef
HeldTransportError == wsRef # 0 /\ WsError(wsRef) /\ UNCHANGED accepted

HeldTransportClose == wsRef # 0 /\ WsClose(wsRef) /\ UNCHANGED accepted

\* C18: an error of the held transport while Connecting or Connected leaves
\* the instance Disconnected with an error message shown; a close of the
\* held transport while Connected leaves it Disconnected.
C18_TransportFailureDisconnects ==
    [][/\ (ConnectionState # "Disconnected" /\ HeldTransportError)
            => (ConnectionState' = "Disconnected" /\ error' # "")
       /\ (ConnectionState = "Connected" /\ HeldTransportClose)
            => ConnectionState' = "Disconnected"]_vars

\* the instance of SpecFeed after the first n of frames have arrived on its
\* transport and nothing else has happened
RECURSIVE Replay(_, _)
Replay(frames, n) ==
    IF n = 0 THEN Connected("RELIANCE", "NSE", "1minute", now)
    ELSE LET prev == Replay(frames, n - 1)
         IN  Effects(prev, onmessage(prev, 1, frames[n], now),
                     SetsRawTicks(frames[n]), now)

IsMalformed(data) == data \in MalformedFrames

IsErrorPayload(data) == data.parseable /\ data.error # ""

\* C19: the buffer, the candles, the connection status and the error are
\* what they would be had the malformed and unrecognised frames never
\* arrived.
C19_MalformedIgnored ==
    LET clean == SelectSeq(accepted, LAMBDA d : ~IsMalformed(d))
        ref   == Replay(clean, Len(clean))
    IN  /\ rawTicks = ref.rawTicks
        /\ aggregatedData = ref.aggregatedData
        /\ isConnected = ref.isConnected
        /\ error = ref.error

\* a tick, a malformed frame, a tick of the next minute: two ticks kept,
\* two candles
C19_Witness ==
    /\ Len(accepted) = 3
    /\ accepted[1].type = "tick"
    /\ IsMalformed(accepted[2])
    /\ accepted[3].type = "tick"
    /\ Len(rawTicks) = 2
    /\ Len(aggregatedData) = 2

RECURSIVE CandleVolume(_)
CandleVolume(n) ==
    IF n = 0 THEN 0 ELSE aggregatedData[n].volume + CandleVolume(n - 1)

\* C29: every tick of the buffer falls in the bucket of exactly one candle,
\* the volumes of the candles add up to the volumes of the ticks, and there
\* are at least one candle for a non-empty buffer and at most as many
\* candles as ticks.
C29_TicksConserved ==
    /\ \A k \in 1..Len(rawTicks) :
          Cardinality({i \in 1..Len(aggregatedData) :
                          k \in TicksOf(aggregatedData[i])}) = 1
    /\ CandleVolume(Len(aggregatedData)) = SumVolume(1..Len(rawTicks))
    /\ rawTicks # << >> => Len(aggregatedData) >= 1
    /\ Len(aggregatedData) <= Len(rawTicks)

\* three ticks in two candles, one of them holding two ticks
C29_Witness ==
    /\ Len(rawTicks) = 3
    /\ Len(aggregatedData) = 2
    /\ \E c \in Candles : Cardinality(TicksOf(c)) = 2
    /\ CandleVolume(2) = 6

IsStatus(data) ==
    data.parseable /\ data.error = "" /\ data.type \in StatusTypes

\* C27: when the last frame is a status or heartbeat message, the
\* last-update time is the time of its arrival, and the buffer, the
\* candles, the error and the connection status are those of the frames
\* before it.
C27_StatusUpdatesLastSeen ==
    LET n == Len(accepted)
    IN  (n > 0 /\ IsStatus(accepted[n])) =>
            LET before == Replay(accepted, n - 1)
            IN  /\ lastUpdateTime = now
                /\ rawTicks = before.rawTicks
                /\ aggregatedData = before.aggregatedData
                /\ error = before.error
                /\ isConnected = before.isConnected

\* C28: a transport error and a transport close leave the buffer and the
\* candles as they were, and a non-empty buffer becomes empty only by
\* disconnect().
C28_DropKeepsBuffer ==
    [][/\ (TransportError \/ TransportClose)
            => UNCHANGED <<rawTicks, aggregatedData>>
       /\ (rawTicks # << >> /\ rawTicks' = << >>)
            => (isConnected /\ ClickStartStop)]_vars

\* the first transport delivered two ticks and dropped; the next connection
\* is being opened with both ticks still in the buffer
C28_Witness ==
    /\ Len(sockets) = 2
    /\ sockets[1].readyState = "CLOSED"
    /\ sockets[2].readyState = "CONNECTING"
    /\ wsRef = 2
    /\ Len(rawTicks) = 2
    /\ Len(aggregatedData) = 1

\* C26: the candles displayed are aggregateTicks of the buffer and the
\* current interval, as of the last aggregation.
C26_CandlesFollowBuffer ==
    aggregatedData = aggregateTicks(rawTicks, interval, aggClock)

\* after a Stop and a reconnect, ticks of two minutes shown as one
\* five-minute candle
C26_Witness ==
    /\ Len(sockets) >= 2
    /\ isConnected
    /\ interval = "5minute"
    /\ Len(rawTicks) = 3
    /\ \E k \in 1..3 : rawTicks[k].timestamp = T0915_05
    /\ \E k \in 1..3 : rawTicks[k].timestamp = T0916_10
    /\ Len(aggregatedData) = 1

\* C24: adding a chart, removing a chart or changing the interval of a
\* chart leaves the display interval of every other chart of the grid as
\* it was.
C24_InstancesIndependent ==
    [][/\ \A sym \in DemoStocks :
             (Includes(demo.selectedSymbols, sym) /\ ~DemoChangeInterval)
                 => (Includes(demo'.selectedSymbols, sym)
                        => IntervalProp(demo', sym) = IntervalProp(demo, sym))
       /\ \A index \in 1..Len(demo.selectedSymbols) :
             (demo'.selectedSymbols = demo.selectedSymbols
                 /\ IntervalAt(demo', index) # IntervalAt(demo, index))
                 => \A other \in 1..Len(demo.selectedSymbols) :
                        other # index
                            => IntervalAt(demo', other) = IntervalAt(demo, other)
      ]_vars

\* the sockets of the form-driven LiveChart that are connecting or open
AppLive(a) ==
    {i \in 1..Len(a.sockets) :
        a.sockets[i].readyState \in {"CONNECTING", "OPEN"}}

\* the frame that carries an error payload
ErrorFrame ==
    [parseable |-> TRUE, error |-> FeedError, price |-> 0, time |-> NoTs]

\* C30: in the form-driven LiveChart at most one socket of the component is
\* connecting or open after every step; a step that creates a socket leaves
\* every earlier socket closing or closed and the point list empty; the
\* unmount leaves no socket connecting or open; and an error payload leaves
\* the socket that delivered it closing.
C30_PreviousSocketClosedFirst ==
    [][/\ Cardinality(AppLive(app')) <= 1
       /\ Len(app'.sockets) > Len(app.sockets) =>
              /\ AppLive(app') = {Len(app'.sockets)}
              /\ app'.ticks = << >>
       /\ (app.mounted /\ ~app'.mounted) => AppLive(app') = {}
       /\ \A s \in AppSockets :
              (/\ app.mounted
               /\ app.sockets[s].readyState = "OPEN"
               /\ app' = AppOnMessage(app, s, ErrorFrame))
              => app'.sockets[s].readyState = "CLOSING"]_vars

\* a subscription parameter changed while started: the first socket, which
\* had subscribed and delivered, is closing, the second one is connecting
\* and the point list is empty
C30_Witness ==
    /\ Len(app.sockets) = 2
    /\ app.started
    /\ app.sockets[1].readyState = "CLOSING"
    /\ app.sockets[1].sent # << >>
    /\ app.sockets[2].readyState = "CONNECTING"
    /\ app.sockets[2].closure # app.sockets[1].closure
    /\ app.ticks = << >>

\* C25: the live chart keeps at most the documented number of points (100
\* in the source, PointCapacity here).
C25_AtMostHundredPoints == Len(rawTicks) <= PointCapacity

\* the point list of the form-driven LiveChart of App.tsx does stay within
\* the documented number of points
AppPointsWithinCapacity == Len(app.ticks) <= PointCapacity

\* the fallback renderer draws candles: its window of the data is not empty
DrawsCandles(c) == startIndex(c) < endIndex(c)

\* C21: while the view is pinned to the latest (the user has not panned
\* it), the newest candle, index n - 1, lies inside the window
\* [startIndex, endIndex) that the fallback renderer draws.
C21_PinnedShowsNewest ==
    (Rendered /\ FallbackShown(chart) /\ chart.n > 0 /\ ~chart.panned)
    => (startIndex(chart) <= chart.n - 1 /\ chart.n - 1 < endIndex(chart))

\* C22: once the user has panned or zoomed, the arrival of new candles
\* leaves zoom level and pan offset as the user chose them.
C22_NewDataKeepsViewport ==
    [][(/\ Rendered
        /\ chart'.status = "rendered"
        /\ chart.zoomed \/ chart.panned
        /\ chart'.n > chart.n)
       => (/\ chart'.zoomLevel = chart.zoomLevel
           /\ chart'.panOffset = chart.panOffset)]_vars

====
